---- MODULE Spec2Model ----
(***************************************************************************)
(* A model of the sshesame honeypot's session-interaction engine: the      *)
(* built-in command interpreter with its in-memory filesystem              *)
(* (src/unnamed/part_001) and the direct-tcpip channel handler             *)
(* (src/tcpip.go).                                                         *)
(*                                                                         *)
(* Strings are sequences of chunks.  Every string that the code inspects   *)
(* character by character (input lines, tokens, paths) is a sequence of    *)
(* one-character chunks; literals that are only ever written out whole     *)
(* (messages, file contents, prompts) are single chunks.                   *)
(*                                                                         *)
(* Exit statuses are Go uint32 values.  They are kept as two 16-bit limbs  *)
(* <<hi, lo>> (value = hi * 65536 + lo), so that the whole range           *)
(* [0, 2^32) is representable.                                             *)
(***************************************************************************)
EXTENDS Integers, Sequences, FiniteSets, TLC

VARIABLES
    heap,        \* the FileSystemNode objects allocated so far; heap[1] is the root
    FileSystem,  \* the global FileSystemType value: Root, Current (node ids), Path
    pty,         \* commandContext.pty of the session
    user,        \* commandContext.user of the session
    frames,      \* the active cmdShell.execute invocations, outermost first
    pc,          \* where the innermost shell stands: "prompt", "read", "done", "panic"
    stdin,       \* the lines ReadLine has returned so far, in order
    last,        \* what the shell did on its latest ReadLine: the kind of step, the
                 \* tokens, and what executeProgram (or exit) returned
    stdout,      \* the writes issued on context.stdout, in order
    stderr,      \* the writes issued on context.stderr, in order
    wfail,       \* TRUE once the session's writers return errors
    nread,       \* number of ReadLine calls made by the session
    result       \* (status, err) returned by the outermost shell

shellVars == <<heap, FileSystem, pty, user, frames, pc, stdin, last, stdout, stderr,
               wfail, nread, result>>

VARIABLES
    extraData,   \* whether newChannel.ExtraData() unmarshals into tcpipChannelData
    port,        \* channelData.Port
    newChannel,  \* the channel open request: "pending", "accepted", "rejected"
    hpc,         \* handleDirectTCPIPChannel: "idle", "start", "loop", "returned"
    hret,        \* what handleDirectTCPIPChannel returned: "none", "nil", "err"
    inputChan,   \* the handler's variable inputChan: "chan" or "nil"
    errorChan,   \* the handler's variable errorChan: "chan" or "nil"
    requests,    \* the handler's variable requests: "chan" or "nil"
    closedChans, \* the Go channels among "inputChan", "errorChan" that were closed
    spc,         \* the goroutine running server.handle: "none", "read", "input",
                 \* "write", "error", "closeError", "closeInput", "done"
    serr,        \* the error server.handle returned: "nil" or "err"
    link,        \* the peer's side of the SSH channel: "up", or "down" once the peer
                 \* closed the channel or the connection was lost
    sent,        \* what the peer wrote on the channel, in order: "req" (an HTTP
                 \* request), "bad" (bytes that are no HTTP request), "eof"
    nparsed,     \* how many of them http.ReadRequest has consumed
    arrived,     \* WantReply of every channel request that arrived, in order
    nrecv,       \* number of channel requests the handler has received
    replies,     \* the Reply calls made: [req, ok, err]
    calls,       \* the calls made on the ssh.Channel: "Write", "CloseWrite", "Close"
    log          \* the log entries written

tcpVars == <<extraData, port, newChannel, hpc, hret, inputChan, errorChan, requests,
             closedChans, spc, serr, link, sent, nparsed, arrived, nrecv, replies, calls,
             log>>

VARIABLES
    channelType, \* newChannel.ChannelType()
    npc,         \* handleNewChannel: "idle", "start", "handler", "closeInput",
                 \* "logClosed", "closeChannel", "returned"
    nret,        \* what handleNewChannel returned: "none", "nil", "err"
    rejects,     \* the reasons of the newChannel.Reject calls made
    goroutines,  \* the goroutines handleNewChannel started: "requests", "input"
    channelInput,\* the Go channel channelInput: "none", "open", "closed"
    ipc,         \* the goroutine ranging over channelInput: "none", "recv" (at the
                 \* receive), "log" (holding an input not yet logged), "done"
    ninput       \* number of inputs the channel's handler sent on channelInput

chanVars == <<channelType, npc, nret, rejects, goroutines, channelInput, ipc, ninput>>

VARIABLES
    cfg,         \* the config: Auth.PasswordAuth.Enabled and .Accepted, validUser,
                 \* validPass
    attempts     \* the calls of the password callback so far: the user and
                 \* password presented, whether it returned a nil error, and the
                 \* Accepted field of the passwordAuthLog event it logged

authVars == <<cfg, attempts>>

VARIABLES
    sess         \* the commands of concurrent sessions at work on the global
                 \* FileSystem, one per session: its args, where it stands (pc),
                 \* the arguments and path parts still to do, and its variable node

VARIABLES
    seen,        \* the commands the sessions' shells have dispatched one after the
                 \* other, in order: the session, the args, what the command wrote
                 \* and what it writes in the run kept in alone
    alone        \* per session, the heap and the FileSystem value of the run in
                 \* which the other session's cd commands are left out

concVars == <<sess, seen, alone>>

vars == <<shellVars, tcpVars, chanVars, authVars, concVars>>

Sessions == {1, 2}

\* a session that has dispatched no command
IdleSession == [args |-> <<>>, pc |-> "idle", dirs |-> <<>>, parts |-> <<>>, node |-> 0]

\* no session is running a command concurrently with another
ConcIdle ==
    /\ sess = [s \in Sessions |-> IdleSession]
    /\ seen = <<>>
    /\ alone = <<>>

\* no authentication is going on
AuthIdle ==
    /\ cfg = [enabled |-> FALSE, accepted |-> FALSE, validUser |-> "root",
              validPass |-> "p1"]
    /\ attempts = <<>>

\* no channel open is being handled by handleNewChannel
ChanIdle ==
    /\ channelType = "session"
    /\ npc = "idle"
    /\ nret = "none"
    /\ rejects = <<>>
    /\ goroutines = {}
    /\ channelInput = "none"
    /\ ipc = "none"
    /\ ninput = 0

----------------------------------------------------------------------------
(* uint32 values as limbs *)

Limb == 256 * 256

U32(n) == <<n \div Limb, n % Limb>>

\* n * 10 + d in limbs; ok is FALSE when the result exceeds 2^32 - 1
MulAdd10(n, d) ==
    LET lo10 == n[2] * 10 + d
        hi10 == n[1] * 10 + (lo10 \div Limb)
    IN  [ok |-> hi10 < Limb, val |-> <<hi10 % Limb, lo10 % Limb>>]

----------------------------------------------------------------------------
(* strings *)

Space == {" ", "\t"}

RECURSIVE FieldsFrom(_, _, _)
FieldsFrom(s, cur, acc) ==
    IF s = <<>>
    THEN IF cur = <<>> THEN acc ELSE Append(acc, cur)
    ELSE IF Head(s) \in Space
         THEN FieldsFrom(Tail(s), <<>>, IF cur = <<>> THEN acc ELSE Append(acc, cur))
         ELSE FieldsFrom(Tail(s), Append(cur, Head(s)), acc)

\* strings.Fields: the maximal runs of non-space characters
Fields(s) == FieldsFrom(s, <<>>, <<>>)

RECURSIVE SplitFrom(_, _, _)
SplitFrom(s, cur, acc) ==
    IF s = <<>>
    THEN Append(acc, cur)
    ELSE IF Head(s) = "/"
         THEN SplitFrom(Tail(s), <<>>, Append(acc, cur))
         ELSE SplitFrom(Tail(s), Append(cur, Head(s)), acc)

\* strings.Split(s, "/"): the pieces between separators, empty pieces kept
Split(s) == SplitFrom(s, <<>>, <<>>)

RECURSIVE Join(_, _)
\* strings.Join(elems, sep)
Join(elems, sep) ==
    IF elems = <<>> THEN <<>>
    ELSE IF Len(elems) = 1 THEN elems[1]
    ELSE elems[1] \o sep \o Join(Tail(elems), sep)

RECURSIVE CleanBack(_, _, _)
\* the ".." backtracking of filepath.Clean: the write index after dropping the
\* last element of out[1..w] together with the separator before it
CleanBack(out, w, dotdot) ==
    IF w > dotdot /\ out[w + 1] # "/"
    THEN CleanBack(out, w - 1, dotdot)
    ELSE w

RECURSIVE CleanElem(_, _, _)
\* copy one real path element from path[r..] to out; returns <<r, out>>
CleanElem(path, r, out) ==
    IF r <= Len(path) /\ path[r] # "/"
    THEN CleanElem(path, r + 1, Append(out, path[r]))
    ELSE <<r, out>>

RECURSIVE CleanLoop(_, _, _, _, _)
\* the scanning loop of filepath.Clean; r is the 1-based read index
CleanLoop(path, r, out, dotdot, rooted) ==
    LET n == Len(path) IN
    IF r > n THEN out
    ELSE IF path[r] = "/"
    THEN CleanLoop(path, r + 1, out, dotdot, rooted)
    ELSE IF path[r] = "." /\ (r = n \/ path[r + 1] = "/")
    THEN CleanLoop(path, r + 1, out, dotdot, rooted)
    ELSE IF path[r] = "." /\ path[r + 1] = "." /\ (r + 1 = n \/ path[r + 2] = "/")
    THEN IF Len(out) > dotdot
         THEN CleanLoop(path, r + 2,
                        SubSeq(out, 1, CleanBack(out, Len(out) - 1, dotdot)),
                        dotdot, rooted)
         ELSE IF ~rooted
         THEN LET o2 == (IF Len(out) > 0 THEN Append(out, "/") ELSE out) \o <<".", ".">>
              IN  CleanLoop(path, r + 2, o2, Len(o2), rooted)
         ELSE CleanLoop(path, r + 2, out, dotdot, rooted)
    ELSE LET o1 == IF (rooted /\ Len(out) # 1) \/ (~rooted /\ Len(out) # 0)
                   THEN Append(out, "/") ELSE out
             e  == CleanElem(path, r, o1)
         IN  CleanLoop(path, e[1], e[2], dotdot, rooted)

\* filepath.Clean on a slash-separated path
Clean(path) ==
    IF path = <<>> THEN <<".">>
    ELSE LET rooted == path[1] = "/"
             out == IF rooted THEN CleanLoop(path, 2, <<"/">>, 1, TRUE)
                              ELSE CleanLoop(path, 1, <<>>, 0, FALSE)
         IN  IF out = <<>> THEN <<".">> ELSE out

Digit ==
    [c \in {"0", "1", "2", "3", "4", "5", "6", "7", "8", "9"} |->
        CASE c = "0" -> 0 [] c = "1" -> 1 [] c = "2" -> 2 [] c = "3" -> 3
          [] c = "4" -> 4 [] c = "5" -> 5 [] c = "6" -> 6 [] c = "7" -> 7
          [] c = "8" -> 8 [] c = "9" -> 9]

RECURSIVE ParseDigits(_, _)
ParseDigits(s, n) ==
    IF s = <<>> THEN [val |-> n, err |-> "nil"]
    ELSE IF Head(s) \notin DOMAIN Digit THEN [val |-> U32(0), err |-> "syntax"]
    ELSE LET m == MulAdd10(n, Digit[Head(s)])
         IN  IF ~m.ok THEN [val |-> <<Limb - 1, Limb - 1>>, err |-> "range"]
             ELSE ParseDigits(Tail(s), m.val)

\* strconv.ParseUint(s, 10, 32)
ParseUint(s) ==
    IF s = <<>> THEN [val |-> U32(0), err |-> "syntax"]
    ELSE ParseDigits(s, U32(0))

----------------------------------------------------------------------------
(* names and literals of the program *)

sh    == <<"s", "h">>
true  == <<"t", "r", "u", "e">>
false == <<"f", "a", "l", "s", "e">>
echo  == <<"e", "c", "h", "o">>
cat   == <<"c", "a", "t">>
ls    == <<"l", "s">>
touch == <<"t", "o", "u", "c", "h">>
mkdir == <<"m", "k", "d", "i", "r">>
cd    == <<"c", "d">>
pwd   == <<"p", "w", "d">>
su    == <<"s", "u">>
exit  == <<"e", "x", "i", "t">>
root  == <<"r", "o", "o", "t">>

usr_txt == <<"u", "s", "r", ".", "t", "x", "t">>
pwd_txt == <<"p", "w", "d", ".", "t", "x", "t">>
checking_account_txt ==
    <<"c", "h", "e", "c", "k", "i", "n", "g", "_",
      "a", "c", "c", "o", "u", "n", "t", ".", "t", "x", "t">>

usrContent == <<"eberk0, cswyne, edan, aroullier, john, henk">>
pwdContent == <<"$2a$04$3ise9UoQ38ceyn6qUmb8neC8UyQnfNiog8ObMSPx.4KLV/vYU0XaC, $2a$04$Z2Orf4kkPuwncqrXae7L1uE5elj1Em9fhw4f8PmwS4POBAdvfzRPa, $2a$04$NkF1cDQf6CSkF83zfucmtO8.yChntXtG8HLB2zJJiZTiKIR2yHbTa, $2a$04$VFAUxOCo5hZuKjQqN6FW/.6TNoLQjFdId02Fk0pPhC0NmWiyUjwCW, $2a$04$y/dBmr4B7zWaNGpTNpjqUuZRHz9bxBaH0LwfEouan2283rBxoLWxu, $2a$04$ATK3lPdtQokdeoBJh.aOweV9h9yU6SMSQ24b7jXDZeUoHC0sMWmZS">>
checkingContent == <<"null, 4936739041871256, null, 5133014750298309, 3531203913896199, 4405957561612502">>

\* the command registry: name -> handler
commands ==
    (sh :> "cmdShell") @@ (true :> "cmdTrue") @@ (false :> "cmdFalse") @@
    (echo :> "cmdEcho") @@ (cat :> "cmdCat") @@ (ls :> "cmdLs") @@
    (touch :> "cmdTouch") @@ (mkdir :> "cmdMkdir") @@ (cd :> "cmdCd") @@
    (pwd :> "cmdPwd") @@ (su :> "cmdSu")

shellProgram == <<sh>>

----------------------------------------------------------------------------
(* the in-memory filesystem *)

\* a Go map value: nil (reads as empty, panics on assignment) or allocated
NilMap   == [nil |-> TRUE, m |-> <<>>]
EmptyMap == [nil |-> FALSE, m |-> <<>>]

MapPut(ch, k, v) ==
    [nil |-> FALSE, m |-> [x \in DOMAIN ch.m \cup {k} |-> IF x = k THEN v ELSE ch.m[x]]]

\* &FileSystemNode{IsDir: true, Children: make(map[string]*FileSystemNode)}
NewDir == [IsDir |-> TRUE, Content |-> <<>>, Children |-> EmptyMap]

\* &FileSystemNode{Content: content}
NewFile(content) == [IsDir |-> FALSE, Content |-> content, Children |-> NilMap]

\* the heap after the package-level initialisers and init() have run
InitHeap ==
    << [IsDir |-> TRUE, Content |-> <<>>,
        Children |-> [nil |-> FALSE,
                      m |-> (usr_txt :> 2) @@ (pwd_txt :> 3) @@ (checking_account_txt :> 4)]],
       NewFile(usrContent), NewFile(pwdContent), NewFile(checkingContent) >>

InitFileSystem == [Root |-> 1, Current |-> 1, Path |-> <<"/">>]

----------------------------------------------------------------------------
(* commands: each maps a commandContext and the world it runs in to what it
   returns and what it leaves behind.
   context = [args, pty, user]; world = [heap, fs, wfail]                  *)

\* the error a write on the session's stdout or stderr returns
WriteErr(world) == IF world.wfail THEN "io" ELSE "nil"

Fprintln(s) == s \o <<"\n">>

Returned(handler, status, err, out, errout, world) ==
    [handler |-> handler, kind |-> "return", status |-> status, err |-> err,
     stdout |-> out, stderr |-> errout, heap |-> world.heap, fs |-> world.fs,
     user |-> <<>>]

Panicked(handler, world) ==
    [handler |-> handler, kind |-> "panic", status |-> U32(0), err |-> "nil",
     stdout |-> <<>>, stderr |-> <<>>, heap |-> world.heap, fs |-> world.fs,
     user |-> <<>>]

cmdTrue(context, world) == Returned("cmdTrue", U32(0), "nil", <<>>, <<>>, world)

cmdFalse(context, world) == Returned("cmdFalse", U32(1), "nil", <<>>, <<>>, world)

cmdEcho(context, world) ==
    Returned("cmdEcho", U32(0), WriteErr(world),
             <<Fprintln(Join(Tail(context.args), <<" ">>))>>, <<>>, world)

cmdPwd(context, world) ==
    Returned("cmdPwd", U32(0), WriteErr(world), <<Fprintln(world.fs.Path)>>, <<>>, world)

RECURSIVE mkdirParts(_, _, _)
\* the inner loop of cmdMkdir over the parts of one argument, from node
mkdirParts(parts, node, h) ==
    IF parts = <<>> THEN [heap |-> h, panic |-> FALSE]
    ELSE LET part == Head(parts) IN
         IF part = <<>> THEN mkdirParts(Tail(parts), node, h)
         ELSE IF part \in DOMAIN h[node].Children.m
         THEN mkdirParts(Tail(parts), h[node].Children.m[part], h)
         ELSE IF h[node].Children.nil
         THEN [heap |-> h, panic |-> TRUE]   \* assignment to entry in nil map
         ELSE LET id == Len(h) + 1
                  h2 == Append([h EXCEPT ![node].Children = MapPut(@, part, id)], NewDir)
              IN  mkdirParts(Tail(parts), id, h2)

RECURSIVE mkdirDirs(_, _, _)
\* the outer loop of cmdMkdir over its arguments
mkdirDirs(dirs, cur, h) ==
    IF dirs = <<>> THEN [heap |-> h, panic |-> FALSE]
    ELSE LET r == mkdirParts(Split(Clean(Head(dirs))), cur, h)
         IN  IF r.panic THEN r ELSE mkdirDirs(Tail(dirs), cur, r.heap)

cmdMkdir(context, world) ==
    IF Len(context.args) < 2
    THEN Returned("cmdMkdir", U32(1), WriteErr(world), <<>>,
                  <<Fprintln(<<"mkdir: missing operand">>)>>, world)
    ELSE LET r == mkdirDirs(Tail(context.args), world.fs.Current, world.heap)
             w == [world EXCEPT !.heap = r.heap]
         IN  IF r.panic THEN Panicked("cmdMkdir", w)
             ELSE Returned("cmdMkdir", U32(0), "nil", <<>>, <<>>, w)

RECURSIVE cdWalk(_, _, _)
\* the loop of cmdCd over the parts of the target; 0 when a part is no directory
cdWalk(parts, node, h) ==
    IF parts = <<>> THEN node
    ELSE LET part == Head(parts) IN
         IF part = <<".", ".">> THEN cdWalk(Tail(parts), node, h)
         ELSE IF part = <<".">> \/ part = <<>> THEN cdWalk(Tail(parts), node, h)
         ELSE IF part \in DOMAIN h[node].Children.m /\ h[h[node].Children.m[part]].IsDir
         THEN cdWalk(Tail(parts), h[node].Children.m[part], h)
         ELSE 0

cmdCd(context, world) ==
    LET toRoot == [world EXCEPT !.fs.Current = world.fs.Root, !.fs.Path = <<"/">>] IN
    IF Len(context.args) < 2
    THEN Returned("cmdCd", U32(0), "nil", <<>>, <<>>, toRoot)
    ELSE LET targetPath == Clean(context.args[2]) IN
         IF targetPath = <<"/">>
         THEN Returned("cmdCd", U32(0), "nil", <<>>, <<>>, toRoot)
         ELSE LET node == cdWalk(Split(targetPath), world.fs.Current, world.heap) IN
              IF node = 0
              THEN Returned("cmdCd", U32(1), WriteErr(world), <<>>,
                            << <<"cd: ">> \o targetPath
                                 \o <<": No such file or directory\n">> >>, world)
              ELSE Returned("cmdCd", U32(0), "nil", <<>>, <<>>,
                            [world EXCEPT !.fs.Current = node, !.fs.Path = targetPath])

cmdCat(context, world) ==
    IF Len(context.args) < 2
    THEN Returned("cmdCat", U32(1), WriteErr(world), <<>>,
                  <<Fprintln(<<"cat: missing operand">>)>>, world)
    ELSE LET file == context.args[2]
             ch   == world.heap[world.fs.Current].Children.m
         IN  IF file \in DOMAIN ch /\ ~world.heap[ch[file]].IsDir
             THEN Returned("cmdCat", U32(0), WriteErr(world),
                           <<Fprintln(world.heap[ch[file]].Content)>>, <<>>, world)
             ELSE Returned("cmdCat", U32(1), WriteErr(world), <<>>,
                           << <<"cat: ">> \o file
                                \o <<": No such file or directory\n">> >>, world)

RECURSIVE Perms(_)
Perms(S) ==
    IF S = {} THEN {<<>>}
    ELSE UNION {{<<x>> \o q : q \in Perms(S \ {x})} : x \in S}

\* the orders in which a range over the map may visit its keys
Orders(ch) == Perms(DOMAIN ch)

cmdLs(context, world, ord) ==
    IF ord = <<>>
    THEN Returned("cmdLs", U32(0), "nil", <<>>, <<>>, world)
    ELSE IF world.wfail
    THEN Returned("cmdLs", U32(1), "io", <<Fprintln(ord[1])>>, <<>>, world)
    ELSE Returned("cmdLs", U32(0), "nil",
                  [i \in 1..Len(ord) |-> Fprintln(ord[i])], <<>>, world)

RECURSIVE touchFiles(_, _, _)
\* the loop of cmdTouch over its arguments
touchFiles(files, cur, h) ==
    IF files = <<>> THEN [heap |-> h, panic |-> FALSE]
    ELSE IF h[cur].Children.nil THEN [heap |-> h, panic |-> TRUE]
    ELSE touchFiles(Tail(files), cur,
                    Append([h EXCEPT ![cur].Children = MapPut(@, Head(files), Len(h) + 1)],
                           NewFile(<<>>)))

cmdTouch(context, world) ==
    IF Len(context.args) < 2
    THEN Returned("cmdTouch", U32(1), WriteErr(world), <<>>,
                  <<Fprintln(<<"usage: touch [-A [-][[hh]mm]SS] [-achm] [-r file] [-t [[CC]YY]MMDDhhmm[.SS]]\n[-d YYYY-MM-DDThh:mm:SS[.frac][tz]] file ...">>)>>,
                  world)
    ELSE LET r == touchFiles(Tail(context.args), world.fs.Current, world.heap)
             w == [world EXCEPT !.heap = r.heap]
         IN  IF r.panic THEN Panicked("cmdTouch", w)
             ELSE Returned("cmdTouch", U32(0), "nil", <<>>, <<>>, w)

\* cmdShell.execute starts a read-eval loop on the session's stdin: the loop
\* itself is the actions Prompt and ReadLine below
cmdShell(context, world) ==
    [handler |-> "cmdShell", kind |-> "shell", status |-> U32(0), err |-> "nil",
     stdout |-> <<>>, stderr |-> <<>>, heap |-> world.heap, fs |-> world.fs,
     user |-> context.user]

\* mutant of commandNotFound: the status of "found but not executable"
commandNotFound_126(context, world) ==
    Returned("none", U32(126), WriteErr(world), <<>>,
             <<context.args[1] \o <<": command not found\n">>>>, world)

\* executeProgram when commands[args[0]] is nil
commandNotFound(context, world) ==
    Returned("none", U32(127), WriteErr(world), <<>>,
             <<context.args[1] \o <<": command not found\n">>>>, world)

RECURSIVE executeProgram(_, _, _)

\* mutant of cmdSu: the default user "root" is not set
cmdSu_keepUser(context, world, ord) ==
    LET newContext == [context EXCEPT
                         !.user = IF Len(context.args) > 1 THEN context.args[2] ELSE @,
                         !.args = shellProgram]
    IN  executeProgram(newContext, world, ord)

cmdSu(context, world, ord) ==
    LET newContext == [context EXCEPT
                         !.user = IF Len(context.args) > 1 THEN context.args[2] ELSE root,
                         !.args = shellProgram]
    IN  executeProgram(newContext, world, ord)

executeProgram(context, world, ord) ==
    IF Len(context.args) = 0
    THEN Returned("none", U32(0), "nil", <<>>, <<>>, world)
    ELSE IF context.args[1] \notin DOMAIN commands
    THEN commandNotFound(context, world)
    ELSE LET command == commands[context.args[1]] IN
         CASE command = "cmdShell" -> cmdShell(context, world)
           [] command = "cmdTrue"  -> cmdTrue(context, world)
           [] command = "cmdFalse" -> cmdFalse(context, world)
           [] command = "cmdEcho"  -> cmdEcho(context, world)
           [] command = "cmdCat"   -> cmdCat(context, world)
           [] command = "cmdLs"    -> cmdLs(context, world, ord)
           [] command = "cmdTouch" -> cmdTouch(context, world)
           [] command = "cmdMkdir" -> cmdMkdir(context, world)
           [] command = "cmdCd"    -> cmdCd(context, world)
           [] command = "cmdPwd"   -> cmdPwd(context, world)
           [] command = "cmdSu"    -> cmdSu(context, world, ord)

----------------------------------------------------------------------------
(* the shell: cmdShell.execute as a loop of two steps, Prompt and ReadLine.
   A frame is one invocation of cmdShell.execute: its context.user and its
   lastStatus.                                                             *)

bob == <<"b", "o", "b">>

\* the users a session starts as
Users == {root, bob}

MaxLines == 3

SP == <<" ">>

a_b_c == <<"a", "/", "b", "/", "c">>

no == <<"n", "o">>

lineBlank    == <<" ">>
lineFoo      == <<"f", "o", "o">>
lineExit     == exit
lineExitMax  == exit \o SP \o <<"4", "2", "9", "4", "9", "6", "7", "2", "9", "5">>
lineExitOver == exit \o SP \o <<"4", "2", "9", "4", "9", "6", "7", "2", "9", "6">>
lineExitNeg  == exit \o SP \o <<"-", "1">>
lineMkdir    == mkdir \o SP \o a_b_c
lineCd       == cd \o SP \o a_b_c
linePwd      == pwd
lineTouch    == touch \o SP \o usr_txt
lineCat      == cat
lineCatUsr   == cat \o SP \o usr_txt
lineCatUsrNo == cat \o SP \o usr_txt \o SP \o no
lineSu       == su
lineSuBob    == su \o SP \o bob

\* the lines a client types
InputLines ==
    { lineBlank, lineFoo, lineExit, lineExitMax, lineExitOver, lineExitNeg,
      lineMkdir, lineCd, linePwd, lineTouch, lineCat, lineCatUsr, lineCatUsrNo,
      lineSu, lineSuBob }

Top(fr) == fr[Len(fr)]

\* mutant of prompt: the user is not looked at
prompt_anyUser(isPty, u) == IF isPty THEN <<"$ ">> ELSE <<>>

\* cmdShell.execute's prompt for a context
prompt(isPty, u) ==
    IF isPty THEN (IF u = root THEN <<"# ">> ELSE <<"$ ">>) ELSE <<>>

\* mutant of recordStatus: the returned status is discarded
recordStatus_discard(fr, status) == fr

\* lastStatus, err = executeProgram(newContext) in the innermost shell of fr
recordStatus(fr, status) == [fr EXCEPT ![Len(fr)].lastStatus = status]

\* mutant of shellReturn: the dispatching shell goes on after an error
shellReturn_swallow(fr, status, err) ==
    LET outer == SubSeq(fr, 1, Len(fr) - 1) IN
    IF outer = <<>>
    THEN [frames |-> <<>>, pc |-> "done", result |-> [status |-> status, err |-> err]]
    ELSE [frames |-> recordStatus(outer, status), pc |-> "prompt",
          result |-> [status |-> U32(0), err |-> "nil"]]

RECURSIVE shellReturn(_, _, _)
\* the innermost shell of fr returns (status, err) to its caller: the session
\* when it is the outermost, else the shell that dispatched it, which records
\* the status and goes on unless err is set
shellReturn(fr, status, err) ==
    LET outer == SubSeq(fr, 1, Len(fr) - 1) IN
    IF outer = <<>>
    THEN [frames |-> <<>>, pc |-> "done", result |-> [status |-> status, err |-> err]]
    ELSE LET rec == recordStatus(outer, status) IN
         IF err # "nil"
         THEN shellReturn(rec, status, err)
         ELSE [frames |-> rec, pc |-> "prompt", result |-> [status |-> U32(0), err |-> "nil"]]

\* mutant of exitStatus: a parse failure keeps what ParseUint returned
exitStatus_keepParsed(args, lastStatus) ==
    IF Len(args) > 1 THEN ParseUint(args[2]).val ELSE lastStatus

\* the status of an exit line
exitStatus(args, lastStatus) ==
    IF Len(args) > 1
    THEN LET p == ParseUint(args[2]) IN IF p.err # "nil" THEN U32(255) ELSE p.val
    ELSE lastStatus

ShellInit ==
    /\ heap = InitHeap
    /\ FileSystem = InitFileSystem
    /\ pty \in BOOLEAN
    /\ user \in Users
    /\ frames = <<[user |-> user, lastStatus |-> U32(0)]>>
    /\ pc = "prompt"
    /\ stdin = <<>>
    /\ last = [kind |-> "start", args |-> <<>>, user |-> user, handler |-> "none",
               status |-> U32(0), err |-> "nil"]
    /\ stdout = <<>>
    /\ stderr = <<>>
    /\ wfail = FALSE
    /\ nread = 0
    /\ result = [status |-> U32(0), err |-> "nil"]

\* the peer closes the channel: from now on writes return an error
WriterFails ==
    /\ pc \in {"prompt", "read"}
    /\ ~wfail
    /\ wfail' = TRUE
    /\ UNCHANGED <<heap, FileSystem, pty, user, frames, pc, stdin, last, stdout, stderr,
                   nread, result>>

\* fmt.Fprint(context.stdout, prompt)
Prompt ==
    /\ pc = "prompt"
    /\ stdout' = Append(stdout, prompt(pty, Top(frames).user))
    /\ IF wfail
       THEN LET r == shellReturn(frames, Top(frames).lastStatus, "io") IN
            /\ frames' = r.frames
            /\ pc' = r.pc
            /\ result' = r.result
       ELSE /\ pc' = "read"
            /\ UNCHANGED <<frames, result>>
    /\ UNCHANGED <<heap, FileSystem, pty, user, stdin, last, stderr, wfail, nread>>

\* context.stdin.ReadLine() fails: end of input or a read error
ReadError ==
    /\ pc = "read"
    /\ LET r == shellReturn(frames, Top(frames).lastStatus, "EOF") IN
       /\ frames' = r.frames
       /\ pc' = r.pc
       /\ result' = r.result
    /\ nread' = nread + 1
    /\ last' = [kind |-> "eof", args |-> <<>>, user |-> Top(frames).user, handler |-> "none",
                status |-> Top(frames).lastStatus, err |-> "EOF"]
    /\ UNCHANGED <<heap, FileSystem, pty, user, stdin, stdout, stderr, wfail>>

\* context.stdin.ReadLine() returns l; the rest of the loop body runs on it
ReadLine(l, ord) ==
    LET args == Fields(l)
        top  == Top(frames)
    IN
    /\ pc = "read"
    /\ nread < MaxLines
    /\ nread' = nread + 1
    /\ stdin' = Append(stdin, l)
    /\ UNCHANGED <<pty, user, wfail>>
    /\ IF Len(args) = 0
       THEN /\ pc' = "prompt"
            /\ last' = [kind |-> "blank", args |-> args, user |-> top.user, handler |-> "none",
                        status |-> top.lastStatus, err |-> "nil"]
            /\ UNCHANGED <<heap, FileSystem, frames, stdout, stderr, result>>
       ELSE IF args[1] = exit
       THEN LET st == exitStatus(args, top.lastStatus)
                r  == shellReturn(frames, st, "nil")
            IN  /\ frames' = r.frames
                /\ pc' = r.pc
                /\ result' = r.result
                /\ last' = [kind |-> "exit", args |-> args, user |-> top.user, handler |-> "none",
                            status |-> st, err |-> "nil"]
                /\ UNCHANGED <<heap, FileSystem, stdout, stderr>>
       ELSE LET newContext == [args |-> args, pty |-> pty, user |-> top.user]
                world == [heap |-> heap, fs |-> FileSystem, wfail |-> wfail]
                x == executeProgram(newContext, world, ord)
            IN  /\ heap' = x.heap
                /\ FileSystem' = x.fs
                /\ stdout' = stdout \o x.stdout
                /\ stderr' = stderr \o x.stderr
                /\ last' = [kind |-> x.kind, args |-> args, user |-> top.user,
                            handler |-> x.handler,
                            status |-> x.status, err |-> x.err]
                /\ CASE x.kind = "shell" ->
                          /\ frames' = Append(frames, [user |-> x.user, lastStatus |-> U32(0)])
                          /\ pc' = "prompt"
                          /\ UNCHANGED result
                     [] x.kind = "panic" ->
                          /\ pc' = "panic"
                          /\ UNCHANGED <<frames, result>>
                     [] x.kind = "return" ->
                          LET rec == recordStatus(frames, x.status) IN
                          IF x.err # "nil"
                          THEN LET r == shellReturn(rec, x.status, x.err) IN
                               /\ frames' = r.frames
                               /\ pc' = r.pc
                               /\ result' = r.result
                          ELSE /\ frames' = rec
                               /\ pc' = "prompt"
                               /\ UNCHANGED result

\* the orders a range over the current directory's children may take, for ls
LineOrders(l) ==
    IF Fields(l) = <<ls>>
    THEN Orders(heap[FileSystem.Current].Children.m)
    ELSE {<<>>}

\* no direct-tcpip channel is open
TcpIdle ==
    /\ extraData = TRUE
    /\ port = 80
    /\ newChannel = "pending"
    /\ hpc = "idle"
    /\ hret = "none"
    /\ inputChan = "nil"
    /\ errorChan = "nil"
    /\ requests = "nil"
    /\ closedChans = {}
    /\ spc = "none"
    /\ serr = "nil"
    /\ link = "up"
    /\ sent = <<>>
    /\ nparsed = 0
    /\ arrived = <<>>
    /\ nrecv = 0
    /\ replies = <<>>
    /\ calls = <<>>
    /\ log = <<>>

ShellNext ==
    \/ WriterFails /\ UNCHANGED <<tcpVars, chanVars, authVars, concVars>>
    \/ Prompt /\ UNCHANGED <<tcpVars, chanVars, authVars, concVars>>
    \/ ReadError /\ UNCHANGED <<tcpVars, chanVars, authVars, concVars>>
    \/ \E l \in InputLines : \E ord \in LineOrders(l) :
            ReadLine(l, ord) /\ UNCHANGED <<tcpVars, chanVars, authVars, concVars>>

\* a session channel with its shell started, and no direct-tcpip channel
SessionInit == ShellInit /\ TcpIdle /\ ChanIdle /\ AuthIdle /\ ConcIdle

ShellSpec == SessionInit /\ [][ShellNext]_vars

----------------------------------------------------------------------------
(* direct-tcpip channels *)

MaxSent == 2
MaxRequests == 2

\* the ports that have a server
servers == {80}

Ports == {80, 25}

Messages == {"req", "bad", "eof"}

InSeq(x, seq) == \E i \in 1..Len(seq) : seq[i] = x

\* what the peer wrote and http.ReadRequest has not consumed
Unread == SubSeq(sent, nparsed + 1, Len(sent))

\* the channel requests that arrived and the handler has not received
Queued == (nrecv + 1)..Len(arrived)

\* a packet can no longer be written on the channel: the peer closed it, the
\* connection is gone, or the server's own Close went out
SendFails == link = "down" \/ InSeq("Close", calls)

TcpInit ==
    /\ extraData \in BOOLEAN
    /\ port \in Ports
    /\ newChannel = "pending"
    /\ hpc = "start"
    /\ hret = "none"
    /\ inputChan = "nil"
    /\ errorChan = "nil"
    /\ requests = "nil"
    /\ closedChans = {}
    /\ spc = "none"
    /\ serr = "nil"
    /\ link = "up"
    /\ sent = <<>>
    /\ nparsed = 0
    /\ arrived = <<>>
    /\ nrecv = 0
    /\ replies = <<>>
    /\ calls = <<>>
    /\ log = <<>>

\* the shell of a session channel, not running
ShellIdle ==
    /\ heap = InitHeap
    /\ FileSystem = InitFileSystem
    /\ pty = FALSE
    /\ user = root
    /\ frames = <<>>
    /\ pc = "done"
    /\ stdin = <<>>
    /\ last = [kind |-> "start", args |-> <<>>, user |-> root, handler |-> "none",
               status |-> U32(0), err |-> "nil"]
    /\ stdout = <<>>
    /\ stderr = <<>>
    /\ wfail = FALSE
    /\ nread = 0
    /\ result = [status |-> U32(0), err |-> "nil"]

\* handleDirectTCPIPChannel from its entry to the first select
handleDirectTCPIPChannel ==
    /\ hpc = "start"
    /\ IF ~extraData \/ link = "down"
       THEN \* ssh.Unmarshal or newChannel.Accept returned an error
            /\ hpc' = "returned"
            /\ hret' = "err"
            /\ UNCHANGED <<newChannel, inputChan, errorChan, requests, spc, log>>
       ELSE /\ newChannel' = "accepted"
            /\ IF port \notin servers
               THEN /\ hpc' = "returned"
                    /\ hret' = "nil"
                    /\ log' = log \o <<"New channel accepted", "Unsupported port",
                                       "Channel closed">>
                    /\ UNCHANGED <<inputChan, errorChan, requests, spc>>
               ELSE /\ hpc' = "loop"
                    /\ inputChan' = "chan"
                    /\ errorChan' = "chan"
                    /\ requests' = "chan"
                    /\ spc' = "read"
                    /\ log' = Append(log, "New channel accepted")
                    /\ UNCHANGED hret
    /\ UNCHANGED <<extraData, port, closedChans, serr, link, sent, nparsed, arrived,
                   nrecv, replies, calls>>

\* the loop condition after a channel variable became nil
Continue(i, e, r) ==
    IF i = "nil" /\ e = "nil" /\ r = "nil"
    THEN /\ hpc' = "returned"
         /\ hret' = "nil"
         /\ log' = Append(log, "Channel closed")
    ELSE UNCHANGED <<hpc, hret, log>>

\* case input, ok := <-inputChan, with the goroutine's send
RecvInput ==
    /\ hpc = "loop"
    /\ inputChan = "chan"
    /\ spc = "input"
    /\ spc' = "write"
    /\ log' = Append(log, "Channel input received")
    /\ UNCHANGED <<extraData, port, newChannel, hpc, hret, inputChan, errorChan,
                   requests, closedChans, serr, link, sent, nparsed, arrived, nrecv,
                   replies, calls>>

\* case input, ok := <-inputChan on the closed channel
InputClosed ==
    /\ hpc = "loop"
    /\ inputChan = "chan"
    /\ "inputChan" \in closedChans
    /\ inputChan' = "nil"
    /\ Continue("nil", errorChan, requests)
    /\ UNCHANGED <<extraData, port, newChannel, errorChan, requests, closedChans, spc,
                   serr, link, sent, nparsed, arrived, nrecv, replies, calls>>

\* case err, ok := <-errorChan, with the goroutine's send
RecvError ==
    /\ hpc = "loop"
    /\ errorChan = "chan"
    /\ spc = "error"
    /\ spc' = "closeError"
    /\ IF serr # "nil"
       THEN /\ hpc' = "returned"
            /\ hret' = "err"
            /\ log' = Append(log, "Channel closed")
       ELSE UNCHANGED <<hpc, hret, log>>
    /\ UNCHANGED <<extraData, port, newChannel, inputChan, errorChan, requests,
                   closedChans, serr, link, sent, nparsed, arrived, nrecv, replies,
                   calls>>

\* case err, ok := <-errorChan on the closed channel
ErrorClosed ==
    /\ hpc = "loop"
    /\ errorChan = "chan"
    /\ "errorChan" \in closedChans
    /\ errorChan' = "nil"
    /\ Continue(inputChan, "nil", requests)
    /\ UNCHANGED <<extraData, port, newChannel, inputChan, requests, closedChans, spc,
                   serr, link, sent, nparsed, arrived, nrecv, replies, calls>>

\* request.Reply(false, nil) on the n-th request, and whether it returned an error
Reply(n, failed) == [req |-> n, ok |-> FALSE, err |-> failed]

\* case request, ok := <-requests
RecvRequest ==
    /\ hpc = "loop"
    /\ requests = "chan"
    /\ Queued # {}
    /\ nrecv' = nrecv + 1
    /\ replies' = IF arrived[nrecv + 1]
                   THEN Append(replies, Reply(nrecv + 1, SendFails))
                   ELSE replies
    /\ IF arrived[nrecv + 1] /\ SendFails
       THEN /\ hpc' = "returned"
            /\ hret' = "err"
            /\ log' = Append(log, "Channel closed")
       ELSE UNCHANGED <<hpc, hret, log>>
    /\ UNCHANGED <<extraData, port, newChannel, inputChan, errorChan, requests,
                   closedChans, spc, serr, link, sent, nparsed, arrived, calls>>

\* case request, ok := <-requests on the closed channel
RequestsClosed ==
    /\ hpc = "loop"
    /\ requests = "chan"
    /\ Queued = {}
    /\ link = "down"
    /\ requests' = "nil"
    /\ Continue(inputChan, errorChan, "nil")
    /\ UNCHANGED <<extraData, port, newChannel, inputChan, errorChan, closedChans, spc,
                   serr, link, sent, nparsed, arrived, nrecv, replies, calls>>

\* httpServer.handle from http.ReadRequest to the send on input or to its return
httpServerRead ==
    /\ spc = "read"
    /\ Unread # <<>> \/ link = "down"
    /\ LET m == IF Unread # <<>> THEN Unread[1] ELSE "eof" IN
       /\ nparsed' = IF Unread # <<>> THEN nparsed + 1 ELSE nparsed
       /\ CASE m = "req" ->
                 /\ spc' = "input"
                 /\ UNCHANGED <<serr, calls>>
            [] m = "bad" ->
                 /\ spc' = "error"
                 /\ serr' = "err"
                 /\ UNCHANGED calls
            [] m = "eof" ->
                 /\ spc' = "error"
                 /\ IF SendFails
                    THEN /\ serr' = "err"
                         /\ calls' = Append(calls, "CloseWrite")
                    ELSE /\ serr' = "nil"
                         /\ calls' = calls \o <<"CloseWrite", "Close">>
    /\ UNCHANGED <<extraData, port, newChannel, hpc, hret, inputChan, errorChan,
                   requests, closedChans, link, sent, arrived, nrecv, replies, log>>

\* httpServer.handle: channel.Write of the 404 response
httpServerWrite ==
    /\ spc = "write"
    /\ calls' = Append(calls, "Write")
    /\ IF SendFails
       THEN /\ spc' = "error"
            /\ serr' = "err"
       ELSE /\ spc' = "read"
            /\ UNCHANGED serr
    /\ UNCHANGED <<extraData, port, newChannel, hpc, hret, inputChan, errorChan,
                   requests, closedChans, link, sent, nparsed, arrived, nrecv, replies,
                   log>>

\* the goroutine's deferred close(errorChan)
CloseErrorChan ==
    /\ spc = "closeError"
    /\ spc' = "closeInput"
    /\ closedChans' = closedChans \cup {"errorChan"}
    /\ UNCHANGED <<extraData, port, newChannel, hpc, hret, inputChan, errorChan,
                   requests, serr, link, sent, nparsed, arrived, nrecv, replies, calls,
                   log>>

\* the goroutine's deferred close(inputChan)
CloseInputChan ==
    /\ spc = "closeInput"
    /\ spc' = "done"
    /\ closedChans' = closedChans \cup {"inputChan"}
    /\ UNCHANGED <<extraData, port, newChannel, hpc, hret, inputChan, errorChan,
                   requests, serr, link, sent, nparsed, arrived, nrecv, replies, calls,
                   log>>

\* the peer writes on the channel
PeerWrite(m) ==
    /\ newChannel = "accepted"
    /\ link = "up"
    /\ Len(sent) < MaxSent
    /\ ~InSeq("eof", sent)
    /\ sent' = Append(sent, m)
    /\ UNCHANGED <<extraData, port, newChannel, hpc, hret, inputChan, errorChan,
                   requests, closedChans, spc, serr, link, nparsed, arrived, nrecv,
                   replies, calls, log>>

\* a channel request of the peer arrives
PeerRequest(WantReply) ==
    /\ newChannel = "accepted"
    /\ link = "up"
    /\ Len(arrived) < MaxRequests
    /\ arrived' = Append(arrived, WantReply)
    /\ UNCHANGED <<extraData, port, newChannel, hpc, hret, inputChan, errorChan,
                   requests, closedChans, spc, serr, link, sent, nparsed, nrecv,
                   replies, calls, log>>

\* the peer closes the channel, or the connection is lost
PeerClose ==
    /\ link = "up"
    /\ link' = "down"
    /\ UNCHANGED <<extraData, port, newChannel, hpc, hret, inputChan, errorChan,
                   requests, closedChans, spc, serr, sent, nparsed, arrived, nrecv,
                   replies, calls, log>>

TcpNext ==
    \/ handleDirectTCPIPChannel /\ UNCHANGED <<shellVars, chanVars, authVars, concVars>>
    \/ RecvInput /\ UNCHANGED <<shellVars, chanVars, authVars, concVars>>
    \/ InputClosed /\ UNCHANGED <<shellVars, chanVars, authVars, concVars>>
    \/ RecvError /\ UNCHANGED <<shellVars, chanVars, authVars, concVars>>
    \/ ErrorClosed /\ UNCHANGED <<shellVars, chanVars, authVars, concVars>>
    \/ RecvRequest /\ UNCHANGED <<shellVars, chanVars, authVars, concVars>>
    \/ RequestsClosed /\ UNCHANGED <<shellVars, chanVars, authVars, concVars>>
    \/ httpServerRead /\ UNCHANGED <<shellVars, chanVars, authVars, concVars>>
    \/ httpServerWrite /\ UNCHANGED <<shellVars, chanVars, authVars, concVars>>
    \/ CloseErrorChan /\ UNCHANGED <<shellVars, chanVars, authVars, concVars>>
    \/ CloseInputChan /\ UNCHANGED <<shellVars, chanVars, authVars, concVars>>
    \/ \E m \in Messages : PeerWrite(m) /\ UNCHANGED <<shellVars, chanVars, authVars, concVars>>
    \/ \E WantReply \in BOOLEAN : PeerRequest(WantReply) /\ UNCHANGED <<shellVars, chanVars, authVars, concVars>>
    \/ PeerClose /\ UNCHANGED <<shellVars, chanVars, authVars, concVars>>

\* a direct-tcpip channel open request, and no shell
ForwardInit == TcpInit /\ ShellIdle /\ ChanIdle /\ AuthIdle /\ ConcIdle

TcpSpec == ForwardInit /\ [][TcpNext]_vars

----------------------------------------------------------------------------
(* what the properties below read off a step *)

\* the step is a ReadLine call that returned a line
ReadStep == stdin' # stdin

\* the tokens of the line that step read
ArgsRead == Fields(stdin'[Len(stdin')])

\* the step dispatched the line to executeProgram
DispatchStep == ReadStep /\ ArgsRead # <<>> /\ ArgsRead[1] # exit

\* the step read an exit line
ExitStep == ReadStep /\ ArgsRead # <<>> /\ ArgsRead[1] = exit

RECURSIVE FsView(_, _)
\* the tree below node id, without the identities of the nodes
FsView(h, id) ==
    [IsDir |-> h[id].IsDir, Content |-> h[id].Content, nil |-> h[id].Children.nil,
     Children |-> [n \in DOMAIN h[id].Children.m |-> FsView(h, h[id].Children.m[n])]]

\* the children of the current directory
CurrentChildren == heap[FileSystem.Current].Children.m

IsPrompt(w) == w \in {<<>>, <<"$ ">>, <<"# ">>}

\* the prompts among the writes, and the other writes
Prompts(out) == SelectSeq(out, IsPrompt)
NonPrompts(out) == SelectSeq(out, LAMBDA w : ~IsPrompt(w))

----------------------------------------------------------------------------
\* C1: a dispatched line whose first token is no key of the command registry
\* makes executeProgram return 127 (which the shell then holds as last-status
\* or returns), write exactly the line "<argv[0]>: command not found\n" to
\* stderr, write nothing to stdout, run no handler and leave the filesystem
\* alone.
C1_CommandNotFound ==
    [][ (DispatchStep /\ ArgsRead[1] \notin DOMAIN commands) =>
          /\ last'.status = U32(127)
          /\ last'.handler = "none"
          /\ stderr' = Append(stderr, ArgsRead[1] \o <<": command not found\n">>)
          /\ stdout' = stdout
          /\ heap' = heap /\ FileSystem' = FileSystem
          /\ pc' = "prompt" => Top(frames').lastStatus = U32(127)
          /\ pc' = "done" => result'.status = U32(127)
      ]_shellVars

C1_Witness ==
    /\ stdin = <<lineFoo>>
    /\ last.handler = "none" /\ last.status = U32(127)
    /\ stderr = << <<"f", "o", "o", ": command not found\n">> >>
    /\ NonPrompts(stdout) = <<>>

\* C2: a new shell starts with last-status 0; a blank line leaves the shells
\* as they are; after a dispatched line whose command returns, the shell's
\* last-status (or, when the command also returned an error, the status the
\* shell returns) is the status executeProgram returned for that line; after a
\* nested shell was left by exit, the last-status of the shell that
\* dispatched it is the status that nested shell returned.
C2_Step ==
    /\ (Len(frames') > Len(frames)) => Top(frames').lastStatus = U32(0)
    /\ (ReadStep /\ ArgsRead = <<>>) => frames' = frames /\ pc' = "prompt"
    /\ DispatchStep =>
         \E ord \in LineOrders(stdin'[Len(stdin')]) :
           LET x == executeProgram([args |-> ArgsRead, pty |-> pty, user |-> Top(frames).user],
                                   [heap |-> heap, fs |-> FileSystem, wfail |-> wfail], ord)
           IN  x.kind = "return" =>
                 /\ pc' = "prompt" =>
                      /\ Len(frames') = Len(frames)
                      /\ Top(frames').lastStatus = x.status
                      /\ Top(frames').user = Top(frames).user
                 /\ pc' = "done" => result'.status = x.status
                 /\ pc' \in {"prompt", "done"}
    /\ (ExitStep /\ Len(frames) > 1) =>
         /\ Len(frames') = Len(frames) - 1
         /\ Top(frames').lastStatus = last'.status

C2_LastStatus ==
    /\ \A i \in 1..Len(frames) : frames[i].lastStatus = U32(0)
    /\ [][C2_Step]_shellVars

C2_Witness ==
    /\ stdin = <<lineFoo, lineCatUsr, lineCat>>
    /\ pc = "prompt"
    /\ Top(frames).lastStatus = U32(1)

\* C3: an exit line ends the shell that read it without an error: "exit N"
\* with the status N for a decimal N below 2^32, with 255 for an N that is no
\* unsigned 32-bit decimal, and "exit" alone with the last-status held then.
\* The outermost shell's status is the session's result; a nested shell's
\* status becomes the last-status of the shell that dispatched it.
C3_Expected(l, lastStatus) ==
    CASE l = lineExit     -> lastStatus
      [] l = lineExitMax  -> <<65535, 65535>>
      [] l = lineExitOver -> <<0, 255>>
      [] l = lineExitNeg  -> <<0, 255>>

C3_Exit ==
    [][ ExitStep =>
          LET st == C3_Expected(stdin'[Len(stdin')], Top(frames).lastStatus) IN
          IF Len(frames) = 1
          THEN pc' = "done" /\ result' = [status |-> st, err |-> "nil"]
          ELSE /\ pc' = "prompt"
               /\ frames' = [SubSeq(frames, 1, Len(frames) - 1)
                               EXCEPT ![Len(frames) - 1].lastStatus = st]
      ]_shellVars

C3_Witness ==
    /\ stdin = <<lineExitMax>>
    /\ pc = "done"
    /\ result = [status |-> <<65535, 65535>>, err |-> "nil"]

\* C4: the shell writes its prompt to stdout exactly once before each ReadLine
\* call and at no other time; the prompt is empty without a pty, "# " for the
\* user root with a pty and "$ " for any other user with a pty; the inputs
\* foo, exit with a pty and a user other than root leave "$ " twice on stdout
\* and the status 127.
C4_State ==
    /\ pc = "prompt" => Len(Prompts(stdout)) = nread
    /\ pc = "read" => Len(Prompts(stdout)) = nread + 1
    /\ pc \in {"done", "panic"} => Len(Prompts(stdout)) \in {nread, nread + 1}
    /\ (stdin = <<lineFoo, lineExit>> /\ pty /\ user # root /\ pc = "done") =>
         /\ stdout = << <<"$ ">>, <<"$ ">> >>
         /\ result = [status |-> U32(127), err |-> "nil"]

C4_Step ==
    /\ nread' # nread => pc = "read" /\ nread' = nread + 1
    /\ pc = "read" => Prompts(stdout') = Prompts(stdout)
    /\ (pc = "prompt" /\ (pc' # pc \/ stdout' # stdout)) =>
         stdout' = Append(stdout,
                          IF ~pty THEN <<>>
                          ELSE IF Top(frames).user = root THEN <<"# ">> ELSE <<"$ ">>)
    /\ (pc' = "read" /\ pc # "read") => pc = "prompt"

C4_Prompt == C4_State /\ [][C4_Step /\ C4_State']_shellVars

C4_Witness ==
    /\ stdin = <<lineFoo, lineExit>> /\ pty /\ user # root /\ pc = "done"
    /\ stdout = << <<"$ ">>, <<"$ ">> >>
    /\ result.status = U32(127)

\* C5: from the root, mkdir a/b/c, cd a/b/c, pwd return 0 each and pwd
\* writes exactly "/a/b/c\n" to stdout.
C5_MkdirCdPwd ==
    /\ (stdin = <<lineMkdir>> /\ last.kind # "eof") =>
         last.handler = "cmdMkdir" /\ last.status = U32(0)
    /\ (stdin = <<lineMkdir, lineCd>> /\ last.kind # "eof") =>
         last.handler = "cmdCd" /\ last.status = U32(0)
    /\ (stdin = <<lineMkdir, lineCd, linePwd>> /\ last.kind # "eof") =>
         /\ last.handler = "cmdPwd" /\ last.status = U32(0)
         /\ NonPrompts(stdout) = << <<"/", "a", "/", "b", "/", "c", "\n">> >>

\* what the code does there: pwd writes the path as cd was given it
C5_Observed ==
    /\ stdin = <<lineMkdir, lineCd, linePwd>>
    /\ last.status = U32(0)
    /\ NonPrompts(stdout) = << <<"a", "/", "b", "/", "c", "\n">> >>

C6_Denied(f) == <<"touch: cannot touch \"">> \o f \o <<"\" : Permission denied\n">>

\* C6: touch of an existing name by a user other than root writes the
\* permission-denied line, returns 1 and leaves the filesystem as it was.
C6_TouchDenied ==
    [][ ( /\ DispatchStep
          /\ ArgsRead[1] = touch /\ Len(ArgsRead) >= 2
          /\ Top(frames).user # root
          /\ ArgsRead[2] \in DOMAIN CurrentChildren ) =>
          /\ last'.status = U32(1)
          /\ \/ \E i \in Len(stdout) + 1 .. Len(stdout') : stdout'[i] = C6_Denied(ArgsRead[2])
             \/ \E i \in Len(stderr) + 1 .. Len(stderr') : stderr'[i] = C6_Denied(ArgsRead[2])
          /\ FsView(heap', FileSystem'.Root) = FsView(heap, FileSystem.Root)
      ]_shellVars

\* what the code does there: status 0, no message, the file replaced
C6_Observed ==
    /\ stdin = <<lineTouch>> /\ user # root
    /\ last.status = U32(0)
    /\ stderr = <<>> /\ NonPrompts(stdout) = <<>>
    /\ heap[CurrentChildren[usr_txt]].Content = <<>>

\* C7: touch of an existing name by root returns 0 and leaves that entry as
\* it was (content, type, children).
C7_TouchKeeps ==
    [][ ( /\ DispatchStep
          /\ ArgsRead[1] = touch /\ Len(ArgsRead) = 2
          /\ Top(frames).user = root
          /\ ArgsRead[2] \in DOMAIN CurrentChildren ) =>
          /\ last'.status = U32(0)
          /\ ArgsRead[2] \in DOMAIN CurrentChildren'
          /\ FsView(heap', CurrentChildren'[ArgsRead[2]])
               = FsView(heap, CurrentChildren[ArgsRead[2]])
      ]_shellVars

\* what the code does there: after su and touch usr.txt, cat usr.txt prints
\* an empty line
C7_Observed ==
    /\ stdin = <<lineSu, lineTouch, lineCatUsr>>
    /\ last.user = root /\ last.status = U32(0)
    /\ NonPrompts(stdout) = << <<"\n">> >>

RECURSIVE C8_Cat(_, _, _)
\* what cat is to write and whether every file was readable
C8_Cat(files, ch, h) ==
    IF files = <<>> THEN [out |-> <<>>, err |-> <<>>, ok |-> TRUE]
    ELSE LET f == Head(files)
             r == C8_Cat(Tail(files), ch, h)
         IN  IF f \in DOMAIN ch /\ ~h[ch[f]].IsDir
             THEN [out |-> <<h[ch[f]].Content \o <<"\n">>>> \o r.out, err |-> r.err, ok |-> r.ok]
             ELSE [out |-> r.out,
                   err |-> << <<"cat: ">> \o f \o <<": No such file or directory\n">> >> \o r.err,
                   ok |-> FALSE]

\* C8: cat handles every named file in order (content and newline to stdout
\* for a file, the No-such-file line to stderr otherwise) and returns 0 iff
\* every one was a readable file, else 1; without arguments it returns 0 and
\* writes nothing.  Stated for writers that accept the writes.
C8_CatAll ==
    [][ (DispatchStep /\ ArgsRead[1] = cat /\ ~wfail) =>
          LET e == C8_Cat(Tail(ArgsRead), CurrentChildren, heap) IN
          /\ stdout' = stdout \o e.out
          /\ stderr' = stderr \o e.err
          /\ last'.status = (IF e.ok THEN U32(0) ELSE U32(1))
      ]_shellVars

\* what the code does there: cat stops after its first argument
C8_Observed ==
    /\ stdin = <<lineCatUsrNo>>
    /\ last.status = U32(0)
    /\ stderr = <<>>
    /\ NonPrompts(stdout) = <<usrContent \o <<"\n">>>>

\* C9: su runs a nested shell as the user named (root by default) on the
\* same input; when that shell is left by exit, the shell that dispatched su
\* goes on with the next line, its user unchanged, the enclosing shells
\* untouched, and its last-status the nested shell's exit status; its next
\* prompt is its own.  From a user other than root, after su and
\* touch usr.txt the touch has run as root with status 0, and after the
\* following exit the outer shell is back with last-status 0 and ends with
\* status 0.
C9_State ==
    /\ (user # root /\ stdin = <<lineSu, lineTouch>> /\ last.kind # "eof") =>
         /\ last.handler = "cmdTouch" /\ last.user = root /\ last.status = U32(0)
         /\ pc # "done" => Len(frames) = 2 /\ frames[1].user = user
    /\ (user # root /\ stdin = <<lineSu, lineTouch, lineExit>>) =>
         /\ pc # "done" => frames = <<[user |-> user, lastStatus |-> U32(0)]>>
         /\ pc = "done" => result.status = U32(0)

C9_Step ==
    /\ (DispatchStep /\ ArgsRead[1] = su) =>
         /\ frames' = Append(frames,
                             [user |-> IF Len(ArgsRead) > 1 THEN ArgsRead[2] ELSE root,
                              lastStatus |-> U32(0)])
         /\ pc' = "prompt"
         /\ stdout' = stdout /\ stderr' = stderr
    /\ (ExitStep /\ Len(frames) > 1) =>
         /\ pc' = "prompt"
         /\ Len(frames') = Len(frames) - 1
         /\ \A i \in 1..Len(frames') : frames'[i].user = frames[i].user
         /\ \A i \in 1..(Len(frames') - 1) : frames'[i] = frames[i]
         /\ Top(frames').lastStatus = last'.status
    /\ (pc = "prompt" /\ pc' = "read") =>
         /\ frames' = frames
         /\ stdout' = Append(stdout,
                             IF ~pty THEN <<>>
                             ELSE IF Top(frames).user = root THEN <<"# ">> ELSE <<"$ ">>)

C9_Su == C9_State /\ [][C9_Step /\ C9_State']_shellVars

C9_Witness ==
    /\ user # root /\ pty
    /\ stdin = <<lineSu, lineTouch, lineExit>>
    /\ pc = "done"
    /\ result = [status |-> U32(0), err |-> "EOF"]
    /\ stdout = << <<"$ ">>, <<"# ">>, <<"# ">>, <<"$ ">> >>

----------------------------------------------------------------------------
\* the Reply calls made for the n-th channel request
RepliesTo(n) == {i \in 1..Len(replies) : replies[i].req = n}

\* C10: once handleDirectTCPIPChannel has returned on an accepted channel,
\* every channel request that arrived on it with WantReply set has had exactly
\* one Reply call, every other request none, and no Reply call carried
\* success = true.
C10_Replies ==
    (newChannel = "accepted" /\ hpc = "returned") =>
        /\ \A n \in 1..Len(arrived) :
               Cardinality(RepliesTo(n)) = IF arrived[n] THEN 1 ELSE 0
        /\ \A i \in 1..Len(replies) : ~replies[i].ok

\* C10: the handler has returned the emulator's parse error while the peer's
\* channel is still up, and the request that arrived with WantReply set has
\* had no Reply call.
C10_Observed ==
    /\ port = 80
    /\ sent = <<"bad">>
    /\ arrived = <<TRUE>>
    /\ link = "up"
    /\ hpc = "returned"
    /\ hret = "err"
    /\ nrecv = 0
    /\ replies = <<>>

\* C10: what does hold of the select loop: each request the handler received
\* from requests has had exactly one Reply call if WantReply was set and none
\* otherwise, all with success = false, and no other request has had any.
C10_Received ==
    /\ \A n \in 1..Len(arrived) :
           Cardinality(RepliesTo(n)) = IF n <= nrecv /\ arrived[n] THEN 1 ELSE 0
    /\ \A i \in 1..Len(replies) : ~replies[i].ok

----------------------------------------------------------------------------
\* C11: a direct-tcpip channel opened to a port without a server is accepted,
\* never rejected, and has been closed by the time the handler returns.
C11_UnsupportedPort ==
    /\ newChannel # "rejected"
    /\ (hpc = "returned" /\ port \notin servers /\ newChannel = "accepted") =>
           InSeq("Close", calls)

\* C11: the handler has returned nil for the port 25 and logged "Channel
\* closed", and no call was ever made on the accepted channel.
C11_Observed ==
    /\ port = 25
    /\ newChannel = "accepted"
    /\ hpc = "returned"
    /\ hret = "nil"
    /\ log = <<"New channel accepted", "Unsupported port", "Channel closed">>
    /\ calls = <<>>
    /\ link = "up"

----------------------------------------------------------------------------
(* channel opens: handleNewChannel and its two goroutines.  The channel's
   handler (handleTCPIPChannel or handleSessionChannel) is any sequence of
   sends on channelInput followed by its return. *)

MaxInputs == 2

ChannelTypes == {"session", "direct-tcpip", "x11"}

\* the keys of channelDataParsers
channelDataParsers == {"session", "direct-tcpip"}

\* channelDataParsers[t](data): "nil", the parsed data, or "err"
parser(t, data) ==
    IF t = "direct-tcpip"
    THEN IF data THEN "tcpipData" ELSE "err"
    ELSE "nil"

\* ssh.Prohibited
Prohibited == "administratively prohibited"

\* the entry "New channel requested" with its field accepted
NewChannelRequested(accept) ==
    IF accept THEN "New channel requested accepted=true"
    ELSE "New channel requested accepted=false"

acceptType_always(t) == TRUE

\* accept, as handleNewChannel holds it after the parser lookup
acceptType(t) == t \in channelDataParsers

ChannelInit ==
    /\ channelType \in ChannelTypes
    /\ extraData \in BOOLEAN
    /\ npc = "start"
    /\ nret = "none"
    /\ rejects = <<>>
    /\ goroutines = {}
    /\ channelInput = "none"
    /\ ipc = "none"
    /\ ninput = 0
    /\ port = 80
    /\ newChannel = "pending"
    /\ hpc = "idle"
    /\ hret = "none"
    /\ inputChan = "nil"
    /\ errorChan = "nil"
    /\ requests = "nil"
    /\ closedChans = {}
    /\ spc = "none"
    /\ serr = "nil"
    /\ link = "up"
    /\ sent = <<>>
    /\ nparsed = 0
    /\ arrived = <<>>
    /\ nrecv = 0
    /\ replies = <<>>
    /\ calls = <<>>
    /\ log = <<>>

\* what no step of handleNewChannel and its goroutines touches
ChanFrame ==
    UNCHANGED <<shellVars, authVars, concVars, extraData, port, hpc, hret, inputChan, errorChan, requests,
                closedChans, spc, serr, link, sent, nparsed, arrived, replies,
                channelType>>

\* handleNewChannel from its entry to the call of the channel's handler
handleNewChannel ==
    /\ npc = "start"
    /\ IF ~acceptType(channelType)
       THEN \* newChannel.Reject(ssh.Prohibited, "")
            /\ log' = log \o <<"Unsupported channel type", NewChannelRequested(FALSE)>>
            /\ rejects' = Append(rejects, Prohibited)
            /\ newChannel' = IF link = "up" THEN "rejected" ELSE newChannel
            /\ npc' = "returned"
            /\ nret' = IF link = "up" THEN "nil" ELSE "err"
            /\ UNCHANGED <<goroutines, channelInput, ipc>>
       ELSE IF parser(channelType, extraData) = "err"
       THEN /\ npc' = "returned"
            /\ nret' = "err"
            /\ UNCHANGED <<log, rejects, newChannel, goroutines, channelInput, ipc>>
       ELSE IF link = "down"
       THEN \* newChannel.Accept returned an error
            /\ log' = Append(log, NewChannelRequested(TRUE))
            /\ npc' = "returned"
            /\ nret' = "err"
            /\ UNCHANGED <<rejects, newChannel, goroutines, channelInput, ipc>>
       ELSE /\ log' = Append(log, NewChannelRequested(TRUE))
            /\ newChannel' = "accepted"
            /\ goroutines' = {"requests", "input"}
            /\ channelInput' = "open"
            /\ ipc' = "recv"
            /\ npc' = "handler"
            /\ UNCHANGED <<rejects, nret>>
    /\ UNCHANGED <<nrecv, calls, ninput>>
    /\ ChanFrame

\* the channel's handler sends on channelInput and the goroutine receives
HandlerSend ==
    /\ npc = "handler"
    /\ ipc = "recv"
    /\ ninput < MaxInputs
    /\ ninput' = ninput + 1
    /\ ipc' = "log"
    /\ UNCHANGED <<newChannel, nrecv, calls, log, npc, nret, rejects, goroutines,
                   channelInput>>
    /\ ChanFrame

\* the channel's handler returns err
HandlerReturn(err) ==
    /\ npc = "handler"
    /\ npc' = "closeInput"
    /\ nret' = err
    /\ UNCHANGED <<newChannel, nrecv, calls, log, rejects, goroutines, channelInput,
                   ipc, ninput>>
    /\ ChanFrame

\* defer close(channelInput)
DeferCloseInput ==
    /\ npc = "closeInput"
    /\ channelInput' = "closed"
    /\ npc' = "logClosed"
    /\ UNCHANGED <<newChannel, nrecv, calls, log, nret, rejects, goroutines, ipc,
                   ninput>>
    /\ ChanFrame

\* defer metadata.getLogEntry().Infoln("Channel closed")
DeferLogClosed ==
    /\ npc = "logClosed"
    /\ log' = Append(log, "Channel closed")
    /\ npc' = "closeChannel"
    /\ UNCHANGED <<newChannel, nrecv, calls, nret, rejects, goroutines, channelInput,
                   ipc, ninput>>
    /\ ChanFrame

\* defer channel.Close()
DeferClose ==
    /\ npc = "closeChannel"
    /\ calls' = Append(calls, "Close")
    /\ npc' = "returned"
    /\ UNCHANGED <<newChannel, nrecv, log, nret, rejects, goroutines, channelInput,
                   ipc, ninput>>
    /\ ChanFrame

\* the goroutine ranging over channelInput logs the input it received
InputLog ==
    /\ ipc = "log"
    /\ log' = Append(log, "Channel input received")
    /\ ipc' = "recv"
    /\ UNCHANGED <<newChannel, nrecv, calls, npc, nret, rejects, goroutines,
                   channelInput, ninput>>
    /\ ChanFrame

\* the goroutine ranging over channelInput finds it closed
InputDone ==
    /\ ipc = "recv"
    /\ channelInput = "closed"
    /\ ipc' = "done"
    /\ UNCHANGED <<newChannel, nrecv, calls, log, npc, nret, rejects, goroutines,
                   channelInput, ninput>>
    /\ ChanFrame

\* the goroutine ranging over requests: handleChannelRequest returns err
RequestHandled(err) ==
    /\ "requests" \in goroutines
    /\ Queued # {}
    /\ nrecv' = nrecv + 1
    /\ calls' = IF err # "nil" THEN Append(calls, "Close") ELSE calls
    /\ UNCHANGED <<newChannel, log, npc, nret, rejects, goroutines, channelInput, ipc,
                   ninput>>
    /\ ChanFrame

ChannelNext ==
    \/ handleNewChannel
    \/ HandlerSend
    \/ \E err \in {"nil", "err"} : HandlerReturn(err)
    \/ DeferCloseInput
    \/ DeferLogClosed
    \/ DeferClose
    \/ InputLog
    \/ InputDone
    \/ \E err \in {"nil", "err"} : RequestHandled(err)
    \/ \E WantReply \in BOOLEAN : PeerRequest(WantReply) /\ UNCHANGED <<shellVars, chanVars, authVars, concVars>>
    \/ PeerClose /\ UNCHANGED <<shellVars, chanVars, authVars, concVars>>

\* a channel open handed to handleNewChannel, and no shell
OpenInit == ChannelInit /\ ShellIdle /\ AuthIdle /\ ConcIdle

ChannelSpec == OpenInit /\ [][ChannelNext]_vars

----------------------------------------------------------------------------
\* C12: a channel open whose type is no key of channelDataParsers is never
\* accepted, starts no goroutine, and once handleNewChannel has returned has
\* had exactly one Reject call, with the reason "administratively prohibited".
C12_UnknownType ==
    channelType \notin {"session", "direct-tcpip"} =>
        /\ newChannel # "accepted"
        /\ goroutines = {} /\ ipc = "none" /\ channelInput = "none"
        /\ Len(rejects) <= 1
        /\ npc = "returned" => rejects = <<"administratively prohibited">>

C12_Witness ==
    /\ channelType = "x11"
    /\ npc = "returned"
    /\ nret = "nil"
    /\ newChannel = "rejected"
    /\ rejects = <<"administratively prohibited">>
    /\ log = <<"Unsupported channel type", "New channel requested accepted=false">>

----------------------------------------------------------------------------
\* C13: a channel open of a known type whose extra data does not parse is
\* never accepted and, once handleNewChannel has returned, has been rejected
\* with the reason "protocol error"; and with the connection up every channel
\* open handleNewChannel has returned from is either accepted or rejected.
C13_ParseError ==
    /\ (channelType = "direct-tcpip" /\ ~extraData) =>
           /\ newChannel # "accepted"
           /\ (npc = "returned" /\ link = "up") =>
                  newChannel = "rejected" /\ rejects = <<"protocol error">>
    /\ (npc = "returned" /\ link = "up") => newChannel \in {"accepted", "rejected"}

\* C13: handleNewChannel has returned the parser's error for a direct-tcpip
\* open, and the open has been neither accepted nor rejected.
C13_Observed ==
    /\ channelType = "direct-tcpip"
    /\ ~extraData
    /\ npc = "returned"
    /\ nret = "err"
    /\ link = "up"
    /\ newChannel = "pending"
    /\ rejects = <<>>
    /\ log = <<>>

----------------------------------------------------------------------------
\* C14: once httpServer.handle has returned, whatever ended its request loop,
\* it has called CloseWrite and then Close on the channel.
C14_HalfCloseThenClose ==
    spc \in {"error", "closeError", "closeInput", "done"} =>
        \E i, j \in 1..Len(calls) :
            i < j /\ calls[i] = "CloseWrite" /\ calls[j] = "Close"

\* C14: httpServer.handle has returned the parse error of the first request,
\* with the peer's channel up, and has made no call on the channel.
C14_Observed ==
    /\ sent = <<"bad">>
    /\ nparsed = 1
    /\ spc = "error"
    /\ serr = "err"
    /\ link = "up"
    /\ calls = <<>>

----------------------------------------------------------------------------
(* password authentication: the callback getPasswordCallback returns *)

MaxAttempts == 2

AuthUsers == {"root", "admin"}

Passwords == {"p1", "p2", "p3"}

\* the callback on (conn.User(), password): ok is TRUE for a nil error,
\* logged is the Accepted field of the event it logs
passwordCallback(c, u, password) ==
    IF u = c.validUser /\ password = c.validPass
    THEN [user |-> u, password |-> password, ok |-> TRUE, logged |-> c.accepted]
    ELSE [user |-> u, password |-> password, ok |-> FALSE, logged |-> FALSE]

AuthInit ==
    /\ cfg \in [enabled : BOOLEAN, accepted : BOOLEAN, validUser : AuthUsers,
                validPass : Passwords]
    /\ attempts = <<>>

\* the SSH library calls the password callback, which exists only when
\* password authentication is enabled
PasswordAttempt(u, password) ==
    /\ cfg.enabled
    /\ Len(attempts) < MaxAttempts
    /\ attempts' = Append(attempts, passwordCallback(cfg, u, password))
    /\ UNCHANGED <<cfg, shellVars, tcpVars, chanVars, concVars>>

AuthNext == \E u \in AuthUsers : \E password \in Passwords : PasswordAttempt(u, password)

\* a connection authenticating, with no channel yet
ConnInit == AuthInit /\ ShellIdle /\ TcpIdle /\ ChanIdle /\ ConcIdle

AuthSpec == ConnInit /\ [][AuthNext]_vars

\* C15: the password callback returns success exactly when the presented
\* user and password are validUser and validPass, or
\* Auth.PasswordAuth.Accepted is true.
C15_Password ==
    \A i \in 1..Len(attempts) :
        attempts[i].ok <=>
            \/ attempts[i].user = cfg.validUser /\ attempts[i].password = cfg.validPass
            \/ cfg.accepted

\* C15: with Accepted true a password other than validPass was presented and
\* the callback returned an error.
C15_Observed ==
    /\ cfg.enabled /\ cfg.accepted
    /\ cfg.validUser = "root" /\ cfg.validPass = "p1"
    /\ attempts = <<[user |-> "root", password |-> "p2", ok |-> FALSE, logged |-> FALSE]>>

----------------------------------------------------------------------------
(* sessions that walk the directory tree *)

a_b == <<"a", "/", "b">>

dotdot == <<".", ".">>

lineMkdirAB == mkdir \o SP \o a_b
lineCdAB    == cd \o SP \o a_b
lineCdUp    == cd \o SP \o dotdot
lineCdHome  == cd
lineLs      == ls

TreeLines == {lineMkdirAB, lineCdAB, lineCdUp, lineCdHome, linePwd, lineLs}

TreeNext ==
    \/ WriterFails /\ UNCHANGED <<tcpVars, chanVars, authVars, concVars>>
    \/ Prompt /\ UNCHANGED <<tcpVars, chanVars, authVars, concVars>>
    \/ ReadError /\ UNCHANGED <<tcpVars, chanVars, authVars, concVars>>
    \/ \E l \in TreeLines : \E ord \in LineOrders(l) :
            ReadLine(l, ord) /\ UNCHANGED <<tcpVars, chanVars, authVars, concVars>>

TreeSpec == SessionInit /\ [][TreeNext]_vars

\* the node id of the child named name of the directory dir
Child(dir, name) == heap[dir].Children.m[name]

\* C16: a ".." segment of cd moves to the parent of the directory reached so
\* far, and at the root it is a no-op with status 0: cd .. as the first line
\* returns 0 and stays at the root, and after mkdir a/b, cd a/b, cd .. the
\* command has returned 0 and the current directory is the node a.
C16_CdParent ==
    /\ (stdin = <<lineCdUp>> /\ last.kind # "eof") =>
         /\ last.handler = "cmdCd" /\ last.status = U32(0)
         /\ FileSystem.Current = FileSystem.Root
    /\ (stdin = <<lineMkdirAB, lineCdAB, lineCdUp>> /\ last.kind # "eof") =>
         /\ last.handler = "cmdCd" /\ last.status = U32(0)
         /\ FileSystem.Current = Child(FileSystem.Root, <<"a">>)

\* C16: after mkdir a/b, cd a/b, cd .. the current directory is still the
\* node b, and the path pwd would print is "..".
C16_Observed ==
    /\ stdin = <<lineMkdirAB, lineCdAB, lineCdUp>>
    /\ last.handler = "cmdCd" /\ last.status = U32(0)
    /\ FileSystem.Current = Child(Child(FileSystem.Root, <<"a">>), <<"b">>)
    /\ FileSystem.Path = <<".", ".">>

----------------------------------------------------------------------------
\* the session's input is finite and ends with EOF, and the goroutine running
\* the shell is scheduled: a shell that can take a step eventually takes one
ShellFairSpec == SessionInit /\ [][ShellNext]_vars /\ WF_vars(ShellNext)

\* the step is a ReadLine call that returned an error
ReadErrorStep == pc = "read" /\ nread' # nread /\ stdin' = stdin

C17_Step ==
    /\ ReadErrorStep =>
         /\ pc' = "done"
         /\ frames' = <<>>
         /\ result' = [status |-> Top(frames).lastStatus, err |-> "EOF"]
    /\ pc = "done" => nread' = nread /\ stdin' = stdin

----------------------------------------------------------------------------
\* C18: once handleDirectTCPIPChannel has returned from its select loop, each
\* of the three sources has completed: inputChan and errorChan were closed and
\* dropped, and requests was closed and dropped with no request left in it.
C18_AllSourcesDrained ==
    (hpc = "returned" /\ spc # "none") =>
        /\ inputChan = "nil" /\ errorChan = "nil" /\ requests = "nil"
        /\ closedChans = {"inputChan", "errorChan"}
        /\ Queued = {}

\* C18: the handler has returned the emulator's error while inputChan and
\* errorChan are not closed and requests is open, with the peer's channel up.
C18_Observed ==
    /\ sent = <<"bad">>
    /\ hpc = "returned"
    /\ hret = "err"
    /\ inputChan = "chan" /\ errorChan = "chan" /\ requests = "chan"
    /\ closedChans = {}
    /\ link = "up"

----------------------------------------------------------------------------
\* C19: the events of a channel come in the order new-channel, then the
\* "Channel input received" events, then "Channel closed": the first entry is
\* the new-channel one and no "Channel input received" entry follows the
\* "Channel closed" entry.
C19_EventOrder ==
    /\ (log # <<>> /\ channelType \in channelDataParsers) =>
           log[1] = "New channel requested accepted=true"
    /\ \A i, j \in 1..Len(log) :
           (i < j /\ log[i] = "Channel closed") => log[j] # "Channel input received"

\* C19: the handler sent one input and returned; its deferred "Channel closed"
\* entry was written before the goroutine logged the input it had received.
C19_Observed ==
    /\ channelType = "session"
    /\ ninput = 1
    /\ log = <<"New channel requested accepted=true", "Channel closed",
               "Channel input received">>

----------------------------------------------------------------------------
(* concurrent sessions: cmdMkdir and cmdTouch statement by statement on the
   global FileSystem, each session in its own goroutine *)

a_c == <<"a", "/", "c">>

\* the commands the sessions dispatch
ConcArgs == { <<mkdir, a_b>>, <<mkdir, a_c>>, <<touch, usr_txt>> }

\* everything of the shell but the heap
shellRest == <<FileSystem, pty, user, frames, pc, stdin, last, stdout, stderr, wfail,
               nread, result>>

ConcFrame == UNCHANGED <<shellRest, tcpVars, chanVars, authVars, seen, alone>>

\* session s dispatches a command: executeProgram calls its execute
ConcDispatch(s, args) ==
    /\ sess[s].pc = "idle"
    /\ sess' = [sess EXCEPT ![s] = [args |-> args,
                                    pc |-> IF args[1] = mkdir THEN "dir" ELSE "touch",
                                    dirs |-> Tail(args), parts |-> <<>>, node |-> 0]]
    /\ UNCHANGED heap
    /\ ConcFrame

\* cmdMkdir: for _, dir := range context.args[1:], up to node := FileSystem.Current
MkdirDir(s) ==
    /\ sess[s].pc = "dir"
    /\ LET me == sess[s] IN
       sess' = [sess EXCEPT ![s] =
                  IF me.dirs = <<>> THEN [me EXCEPT !.pc = "done"]
                  ELSE [me EXCEPT !.pc = "check", !.dirs = Tail(me.dirs),
                                  !.parts = Split(Clean(Head(me.dirs))),
                                  !.node = FileSystem.Current]]
    /\ UNCHANGED heap
    /\ ConcFrame

\* cmdMkdir: for _, part := range parts, up to the test of node.Children[part]
MkdirCheck(s) ==
    /\ sess[s].pc = "check"
    /\ LET me == sess[s] IN
       sess' = [sess EXCEPT ![s] =
                  IF me.parts = <<>> THEN [me EXCEPT !.pc = "dir"]
                  ELSE IF Head(me.parts) = <<>> THEN [me EXCEPT !.parts = Tail(me.parts)]
                  ELSE IF Head(me.parts) \in DOMAIN heap[me.node].Children.m
                  THEN [me EXCEPT !.pc = "descend"]
                  ELSE [me EXCEPT !.pc = "insert"]]
    /\ UNCHANGED heap
    /\ ConcFrame

\* cmdMkdir: node.Children[part] = &FileSystemNode{IsDir: true, ...}
MkdirInsert(s) ==
    /\ sess[s].pc = "insert"
    /\ IF heap[sess[s].node].Children.nil
       THEN /\ sess' = [sess EXCEPT ![s].pc = "panic"]
            /\ UNCHANGED heap
       ELSE /\ heap' = Append([heap EXCEPT ![sess[s].node].Children =
                                  MapPut(@, Head(sess[s].parts), Len(heap) + 1)],
                              NewDir)
            /\ sess' = [sess EXCEPT ![s].pc = "descend"]
    /\ ConcFrame

\* cmdMkdir: node = node.Children[part]
MkdirDescend(s) ==
    /\ sess[s].pc = "descend"
    /\ LET me == sess[s] IN
       sess' = [sess EXCEPT ![s] =
                  [me EXCEPT !.pc = "check", !.parts = Tail(me.parts),
                             !.node = heap[me.node].Children.m[Head(me.parts)]]]
    /\ UNCHANGED heap
    /\ ConcFrame

\* cmdTouch: one iteration of its loop, or its return
TouchFile(s) ==
    /\ sess[s].pc = "touch"
    /\ IF sess[s].dirs = <<>>
       THEN /\ sess' = [sess EXCEPT ![s].pc = "done"]
            /\ UNCHANGED heap
       ELSE /\ heap' = Append([heap EXCEPT ![FileSystem.Current].Children =
                                  MapPut(@, Head(sess[s].dirs), Len(heap) + 1)],
                              NewFile(<<>>))
            /\ sess' = [sess EXCEPT ![s].dirs = Tail(@)]
    /\ ConcFrame

\* the map session s is about to access, 0 if none
NextMap(s) ==
    IF sess[s].pc \in {"insert", "descend"} THEN sess[s].node
    ELSE IF sess[s].pc = "check" /\ sess[s].parts # <<>> /\ Head(sess[s].parts) # <<>>
    THEN sess[s].node
    ELSE IF sess[s].pc = "touch" /\ sess[s].dirs # <<>> THEN FileSystem.Current
    ELSE 0

\* session s is about to assign to an entry of a map
NextWrites(s) ==
    \/ sess[s].pc = "insert"
    \/ sess[s].pc = "touch" /\ sess[s].dirs # <<>>

\* two goroutines are in the same map at once, one of them writing, and the Go
\* runtime notices: fatal error: concurrent map writes (or: concurrent map read
\* and map write); the process dies
ConcurrentMapFault ==
    /\ \E s, t \in Sessions :
          /\ s # t
          /\ NextMap(s) # 0
          /\ NextMap(s) = NextMap(t)
          /\ NextWrites(s)
    /\ sess' = [s \in Sessions |-> [sess[s] EXCEPT !.pc = "fatal"]]
    /\ UNCHANGED heap
    /\ ConcFrame

ConcNext ==
    \/ \E s \in Sessions : \E args \in ConcArgs : ConcDispatch(s, args)
    \/ \E s \in Sessions : MkdirDir(s)
    \/ \E s \in Sessions : MkdirCheck(s)
    \/ \E s \in Sessions : MkdirInsert(s)
    \/ \E s \in Sessions : MkdirDescend(s)
    \/ \E s \in Sessions : TouchFile(s)
    \/ ConcurrentMapFault

\* two sessions with their shells at the prompt, about to dispatch
ConcInit ==
    /\ ShellIdle /\ TcpIdle /\ ChanIdle /\ AuthIdle
    /\ sess = [s \in Sessions |-> IdleSession]
    /\ seen = <<>>
    /\ alone = <<>>

ConcSpec == ConcInit /\ [][ConcNext]_vars

\* the tree after the commands a1 and then a2 ran one after the other from
\* the initial filesystem
SequentialView(a1, a2) ==
    LET ctx(a) == [args |-> a, pty |-> FALSE, user |-> root]
        x1 == executeProgram(ctx(a1), [heap |-> InitHeap, fs |-> InitFileSystem,
                                       wfail |-> FALSE], <<>>)
        x2 == executeProgram(ctx(a2), [heap |-> x1.heap, fs |-> x1.fs, wfail |-> FALSE],
                             <<>>)
    IN  FsView(x2.heap, x2.fs.Root)

\* two sessions are about to access the same map of the tree, one of them
\* writing it
Racing ==
    \E s, t \in Sessions :
        s # t /\ NextMap(s) # 0 /\ NextMap(s) = NextMap(t) /\ NextWrites(s)

\* C20: command executions on the global tree are serialized: no two sessions
\* are in the same map of the tree at the same time with one of them writing,
\* no session dies of it, and once both sessions' commands have returned the
\* tree is one that running the two commands one after the other, in one of
\* the two orders, yields.
C20_Serialized ==
    /\ ~Racing
    /\ \A s \in Sessions : sess[s].pc # "fatal"
    /\ (\A s \in Sessions : sess[s].pc = "done") =>
           FsView(heap, FileSystem.Root) \in
               { SequentialView(sess[1].args, sess[2].args),
                 SequentialView(sess[2].args, sess[1].args) }

\* C20: mkdir a/b and mkdir a/c of two sessions have both returned, and the
\* tree holds a with one child only, which neither order of the two commands
\* yields: the two commands both found a missing and both inserted it.
C20_Observed ==
    /\ sess[1].args = <<mkdir, a_b>> /\ sess[1].pc = "done"
    /\ sess[2].args = <<mkdir, a_c>> /\ sess[2].pc = "done"
    /\ Cardinality(DOMAIN heap[Child(FileSystem.Root, <<"a">>)].Children.m) = 1
    /\ FsView(heap, FileSystem.Root) \notin
           { SequentialView(sess[1].args, sess[2].args),
             SequentialView(sess[2].args, sess[1].args) }

----------------------------------------------------------------------------
(* sessions that make directories below files *)

usr_txt_a == usr_txt \o <<"/", "a">>

lineMkdirUsrA == mkdir \o SP \o usr_txt_a
lineMkdirNone == mkdir
lineTouchA    == touch \o SP \o <<"a">>

MkdirLines == {lineMkdirUsrA, lineMkdirAB, lineMkdirNone, lineTouchA}

MkdirNext ==
    \/ WriterFails /\ UNCHANGED <<tcpVars, chanVars, authVars, concVars>>
    \/ Prompt /\ UNCHANGED <<tcpVars, chanVars, authVars, concVars>>
    \/ ReadError /\ UNCHANGED <<tcpVars, chanVars, authVars, concVars>>
    \/ \E l \in MkdirLines : \E ord \in LineOrders(l) :
            ReadLine(l, ord) /\ UNCHANGED <<tcpVars, chanVars, authVars, concVars>>

MkdirSpec == SessionInit /\ [][MkdirNext]_vars

\* C21: mkdir with at least one argument returns 0 and never faults, also
\* when a component of the path names a file; every file node has no
\* children and every directory node has a child map.
C21_MkdirNoFault ==
    /\ pc # "panic"
    /\ (last.handler = "cmdMkdir" /\ Len(last.args) >= 2) =>
           last.kind = "return" /\ last.status = U32(0)
    /\ \A id \in 1..Len(heap) :
           IF heap[id].IsDir THEN ~heap[id].Children.nil
           ELSE DOMAIN heap[id].Children.m = {}

\* C21: mkdir usr.txt/a as the first line of a session faulted: the
\* assignment into the nil child map of the file usr.txt.
C21_Observed ==
    /\ stdin = <<lineMkdirUsrA>>
    /\ pc = "panic"
    /\ last.kind = "panic" /\ last.handler = "cmdMkdir"
    /\ heap = InitHeap

----------------------------------------------------------------------------
\* C22: the goroutine running server.handle is never left at a send on
\* inputChan or errorChan that nothing will receive: the handler, the only
\* receiver of both, has not returned while the goroutine stands at one.
C22_GoroutineEnds ==
    hpc = "returned" => spc \notin {"input", "error"}

\* C22: the emulator read EOF and closed the channel; the handler then
\* received a request with WantReply set, its Reply failed and it returned;
\* the goroutine stands at its send on errorChan for good.
C22_Observed ==
    /\ hpc = "returned"
    /\ hret = "err"
    /\ spc = "error"
    /\ serr = "nil"
    /\ calls = <<"CloseWrite", "Close">>
    /\ replies = <<[req |-> 1, ok |-> FALSE, err |-> TRUE]>>
    /\ closedChans = {}

----------------------------------------------------------------------------
(* the three authentication callbacks and the events they log *)

\* the callback getPublicKeyCallback returns
publicKeyCallback(c, u) ==
    [method |-> "publickey", user |-> u, ok |-> c.pkAccepted, logged |-> c.pkAccepted]

\* the callback getKeyboardInteractiveCallback returns; answers is "err" when
\* the client's challenge function returned an error, else answers[0]
keyboardInteractiveCallback(c, u, answers) ==
    IF answers = "err"
    THEN [method |-> "keyboard-interactive", user |-> u, answers |-> answers,
          event |-> FALSE, ok |-> FALSE, logged |-> FALSE]
    ELSE [method |-> "keyboard-interactive", user |-> u, answers |-> answers,
          event |-> TRUE,
          ok |-> (u = c.validUser /\ answers = c.validPass) \/ c.kiAccepted,
          logged |-> c.kiAccepted]

CallbacksInit ==
    /\ cfg \in [enabled : BOOLEAN, accepted : BOOLEAN, validUser : AuthUsers,
                validPass : Passwords,
                pkEnabled : BOOLEAN, pkAccepted : BOOLEAN,
                kiEnabled : BOOLEAN, kiAccepted : BOOLEAN]
    /\ attempts = <<>>

PublicKeyAttempt(u) ==
    /\ cfg.pkEnabled
    /\ Len(attempts) < MaxAttempts
    /\ attempts' = Append(attempts, publicKeyCallback(cfg, u))
    /\ UNCHANGED <<cfg, shellVars, tcpVars, chanVars, concVars>>

KeyboardInteractiveAttempt(u, answers) ==
    /\ cfg.kiEnabled
    /\ Len(attempts) < MaxAttempts
    /\ attempts' = Append(attempts, keyboardInteractiveCallback(cfg, u, answers))
    /\ UNCHANGED <<cfg, shellVars, tcpVars, chanVars, concVars>>

CallbacksNext ==
    \/ \E u \in AuthUsers : \E password \in Passwords : PasswordAttempt(u, password)
    \/ \E u \in AuthUsers : PublicKeyAttempt(u)
    \/ \E u \in AuthUsers : \E answers \in Passwords \cup {"err"} :
           KeyboardInteractiveAttempt(u, answers)

\* a connection authenticating by any of the three methods
CallbacksConnInit == CallbacksInit /\ ShellIdle /\ TcpIdle /\ ChanIdle /\ ConcIdle

CallbacksSpec == CallbacksConnInit /\ [][CallbacksNext]_vars

\* C23: for every attempt the password, public-key and keyboard-interactive
\* callbacks handled, the accepted field of the event logged is true exactly
\* when the callback returned a nil error.
C23_EventMatchesVerdict ==
    \A i \in 1..Len(attempts) : attempts[i].logged <=> attempts[i].ok

\* C23: with auth.password.accepted false the valid credentials were
\* presented: the callback returned a nil error and logged accepted=false.
C23_Observed ==
    /\ cfg.enabled /\ ~cfg.accepted
    /\ cfg.validUser = "root" /\ cfg.validPass = "p1"
    /\ attempts = <<[user |-> "root", password |-> "p1", ok |-> TRUE, logged |-> FALSE]>>

----------------------------------------------------------------------------
(* two sessions whose shells dispatch commands on the global FileSystem, one
   command at a time; next to the run itself, alone[s] keeps the run in which
   the commands of the other session that are cd were not executed *)

MaxCommands == 3

SharedArgs == { <<mkdir, a_b>>, <<cd, a_b>>, <<cd>>, <<pwd>>, <<ls>>, <<cat, usr_txt>> }

shellOther == <<pty, user, frames, pc, stdin, last, stdout, stderr, wfail, nread, result>>

\* the world a command dispatched by a session's shell runs in
World(h, fs) == [heap |-> h, fs |-> fs, wfail |-> FALSE]

\* the orders in which cmdLs may range over the current directory of fs
ArgsOrders(args, h, fs) ==
    IF args = <<ls>> THEN Orders(h[fs.Current].Children.m) ELSE {<<>>}

\* the order of the same range in another run: the same when the same names
\* are ranged over
SameOrder(args, ord, h, fs) ==
    IF ord \in ArgsOrders(args, h, fs) THEN ord
    ELSE CHOOSE o \in ArgsOrders(args, h, fs) : TRUE

\* what a command wrote, stdout then stderr
Written(r) == <<r.stdout, r.stderr>>

\* the shell of session s dispatches args: executeProgram on the package-level
\* FileSystem
SessionCommand(s, args, ord) ==
    LET context == [args |-> args, pty |-> FALSE, user |-> root]
        r == executeProgram(context, World(heap, FileSystem), ord)
        ra(t) == executeProgram(context, World(alone[t].heap, alone[t].fs),
                                SameOrder(args, ord, alone[t].heap, alone[t].fs))
    IN  /\ Len(seen) < MaxCommands
        /\ heap' = r.heap
        /\ FileSystem' = r.fs
        /\ alone' = [t \in Sessions |->
                        IF args[1] = cd /\ t # s THEN alone[t]
                        ELSE [heap |-> ra(t).heap, fs |-> ra(t).fs]]
        /\ seen' = Append(seen, [session |-> s, args |-> args,
                                 out |-> Written(r), alone |-> Written(ra(s))])
        /\ UNCHANGED <<sess, shellOther, tcpVars, chanVars, authVars>>

SharedNext ==
    \E s \in Sessions : \E args \in SharedArgs :
        \E ord \in ArgsOrders(args, heap, FileSystem) : SessionCommand(s, args, ord)

\* two sessions at their prompts on the filesystem init() built
SharedInit ==
    /\ ShellIdle /\ TcpIdle /\ ChanIdle /\ AuthIdle
    /\ sess = [s \in Sessions |-> IdleSession]
    /\ seen = <<>>
    /\ alone = [s \in Sessions |-> [heap |-> InitHeap, fs |-> InitFileSystem]]

SharedSpec == SharedInit /\ [][SharedNext]_vars

\* C24: what pwd, ls and cat write in a session is what they write in the
\* run in which the other session executed no cd: the current directory a
\* session sees changes only through its own cd commands.
C24_OwnCdOnly ==
    \A i \in 1..Len(seen) :
        seen[i].args[1] \in {pwd, ls, cat} => seen[i].out = seen[i].alone

\* C24: session 1 ran mkdir a/b, session 2 ran cd a/b, and pwd in session 1
\* wrote a/b, where it writes / had session 2 not executed cd.
C24_Observed ==
    /\ Len(seen) = 3
    /\ seen[1].session = 1 /\ seen[1].args = <<mkdir, a_b>>
    /\ seen[2].session = 2 /\ seen[2].args = <<cd, a_b>>
    /\ seen[3].session = 1 /\ seen[3].args = <<pwd>>
    /\ seen[3].out = << <<Fprintln(a_b)>>, <<>> >>
    /\ seen[3].alone = << <<Fprintln(<<"/">>)>>, <<>> >>

====
